---- MODULE Spec2Model ----
(***************************************************************************)
(* The form-submission server: POST /submit-form of server.js and of the   *)
(* second server file of the repository (unnamed/part_000).  One request   *)
(* is followed from its arrival through the multer middleware, the         *)
(* handler's awaits on the remote calls (fileCreate, metafield write,      *)
(* sendMail) and the response.  Every action runs the handler from one     *)
(* await to the next, as the event loop does.                              *)
(***************************************************************************)
EXTENDS Integers, Sequences, FiniteSets, TLC

VARIABLES
    rev,                \* the server file node was started with
    env,                \* process.env, read by every request
    pc,                 \* where the server / the handler is
    req,                \* the request being handled (body, files, images)
    i,                  \* position of `for (const file of files)`
    uploadedImageURLs,  \* let uploadedImageURLs = []
    calls,              \* the remote calls issued for this request, in order
    metafieldWrites,    \* the values carried by the metafield write
    mails,              \* the mailOptions.html handed to sendMail
    responses           \* what was written to res

vars == <<rev, env, pc, req, i, uploadedImageURLs, calls, metafieldWrites,
          mails, responses>>

-----------------------------------------------------------------------------
(* Bounds and program constants *)

\* the largest number of file parts a modelled request carries
MaxSubmitted == 6

\* upload.array('images', 5)
MaxCount == 5

\* JavaScript's undefined: a missing body field, a missing environment variable
Undefined == "<undefined>"

Revisions == {"server.js", "part_000"}

-----------------------------------------------------------------------------
(* The request *)

requiredFields == <<"firstName", "lastName", "email", "phone">>

customerInfoKeys == {"firstName", "lastName", "email", "phone", "referralSource"}

itemDetailsKeys == {"category", "brand", "modelNo", "condition", "hasBox",
                    "hasPapers", "askingPrice", "additionalInfo"}

legacyKeys == {"name", "email", "message", "checkbox"}

\* every field a form of this site submits
FormFields == customerInfoKeys \cup itemDetailsKeys \cup legacyKeys \cup
              {"itemType", "metalType", "diamondCarat", "goldKarat",
               "itemWeight", "yearOfPurchase"}

\* the slots of the `images` mapping of a JSON body
Slots == {"front", "back", "accessories"}

SampleValue ==
    [firstName |-> "Ada", lastName |-> "Byron", email |-> "ada@example.org",
     phone |-> "0123", referralSource |-> "friend", category |-> "cat",
     brand |-> "Omega", modelNo |-> "S300", condition |-> "good",
     hasBox |-> "yes", hasPapers |-> "no", askingPrice |-> "900",
     additionalInfo |-> "scratched", name |-> "Ada Byron",
     message |-> "hello", checkbox |-> "on", itemType |-> "ring",
     metalType |-> "platinum", diamondCarat |-> "1.5", goldKarat |-> "18",
     itemWeight |-> "12g", yearOfPurchase |-> "2019"]

\* the fields each form of the site fills besides the contact fields
FormProfiles ==
    [watch |-> {"category", "brand", "modelNo", "condition", "hasBox",
                "hasPapers", "askingPrice", "additionalInfo", "referralSource",
                "yearOfPurchase"},
     jewellery |-> {"category", "itemType", "metalType", "diamondCarat",
                    "goldKarat", "itemWeight", "askingPrice", "yearOfPurchase"},
     contact |-> {"name", "message", "checkbox"}]

\* a body: the required fields in `absent` are left out, those in `blank` are
\* sent empty, and the fields of the profile are filled
Body(profile, absent, blank) ==
    [f \in FormFields |->
        IF f \in absent THEN Undefined
        ELSE IF f \in blank THEN ""
        ELSE IF f \in FormProfiles[profile] \cup {"firstName", "lastName", "email", "phone"}
             THEN SampleValue[f]
        ELSE Undefined]

RequiredSet == {requiredFields[k] : k \in 1..Len(requiredFields)}

\* the required fields a modelled request leaves out, or sends empty
AbsentChoices == {{}, {"firstName"}, RequiredSet}

BlankChoices == {{}, {"email"}}

Bodies ==
    {Body(p, a, {}) : p \in DOMAIN FormProfiles, a \in AbsentChoices}
    \cup {Body(p, {}, b) : p \in DOMAIN FormProfiles, b \in BlankChoices}

\* req.files of a multipart request with n file parts under `images`
FileParts(n) == [k \in 1..n |-> k]

\* multipart/form-data: multer fills req.body and req.files;
\* application/json: body-parser fills req.body, multer leaves req.files unset
Requests ==
    {[ctype |-> "multipart", body |-> b, hasFiles |-> TRUE,
      files |-> FileParts(n), images |-> {}] :
        b \in Bodies, n \in 0..MaxSubmitted}
    \cup
    {[ctype |-> "json", body |-> b, hasFiles |-> FALSE, files |-> <<>>,
      images |-> s] :
        b \in Bodies, s \in {{}, {"front"}, Slots}}

NoRequest ==
    [ctype |-> "none", body |-> [f \in FormFields |-> Undefined],
     hasFiles |-> FALSE, files |-> <<>>, images |-> {}]

\* process.env after dotenv: complete, or with one credential not set
Environments ==
    {[SHOPIFY_ACCESS_TOKEN |-> "shpat", EMAIL_PASS |-> "secret"],
     [SHOPIFY_ACCESS_TOKEN |-> Undefined, EMAIL_PASS |-> "secret"],
     [SHOPIFY_ACCESS_TOKEN |-> "shpat", EMAIL_PASS |-> Undefined]}

-----------------------------------------------------------------------------
(* Pure parts of the handler *)

\* !req.body[field]
Falsy(v) == v = Undefined \/ v = ""

\* requiredFields.filter(field => !req.body[field])
missingFields(body) == SelectSeq(requiredFields, LAMBDA f : Falsy(body[f]))

\* multer's upload.array('images', 5): more parts than maxCount is an error
MulterRejects(r) == r.ctype = "multipart" /\ Len(r.files) > MaxCount

LoopSkipsLast(r, j) == r.hasFiles /\ Len(r.files) > 0 /\ j < Len(r.files)

\* if (files && files.length > 0) { for (const file of files) ... }
LoopHasNext(r, j) == r.hasFiles /\ Len(r.files) > 0 /\ j <= Len(r.files)

\* the url the platform answers for a created file
Url(file) == <<"https://cdn/", file>>

\* getShopifyHeaders()
getShopifyHeaders(e) ==
    [XShopifyAccessToken |-> e.SHOPIFY_ACCESS_TOKEN,
     ContentType |-> "application/json"]

\* JSON.stringify of an object literal: the text holds one "key":value member
\* for each member whose value is not undefined
Stringify(obj) == {<<k, obj[k]>> : k \in {x \in DOMAIN obj : obj[x] # Undefined}}

\* value: JSON.stringify({customerInfo: {...}, itemDetails: {...}, images, submittedAt})
ServerValue(formData, urls) ==
    [customerInfo |-> Stringify([k \in customerInfoKeys |-> formData[k]]),
     itemDetails |-> Stringify([k \in itemDetailsKeys |-> formData[k]]),
     images |-> urls,
     submittedAt |-> "now"]

\* value: JSON.stringify({name, email, message, checkbox, images}); the four
\* form members are kept together under `fields`
LegacyValue(formData, urls) ==
    [fields |-> Stringify([k \in legacyKeys |-> formData[k]]),
     images |-> urls]

MetafieldValue(r, formData, urls) ==
    IF r = "server.js" THEN ServerValue(formData, urls)
    ELSE LegacyValue(formData, urls)

\* `${x}` in a template literal
Interpolate(v) == IF v = Undefined THEN "undefined" ELSE v

ImagesBlockAlways(imageUrls) ==
    <<"<p><b>Images:</b></p>">> \o [k \in 1..Len(imageUrls) |-> <<"img", imageUrls[k]>>]

\* imageUrls.length > 0 ? `<p><b>Images:</b></p>` + imageUrls.map(...) : ""
ImagesBlock(imageUrls) ==
    IF Len(imageUrls) > 0
    THEN <<"<p><b>Images:</b></p>">> \o [k \in 1..Len(imageUrls) |-> <<"img", imageUrls[k]>>]
    ELSE <<>>

\* sendEmailNotification's mailOptions.html
MailHtml(name, email, message, imageUrls) ==
    [name |-> name, email |-> Interpolate(email),
     message |-> Interpolate(message), images |-> ImagesBlock(imageUrls)]

\* the arguments the handler passes to sendEmailNotification
NotificationFor(r, formData, urls) ==
    IF r = "server.js"
    THEN MailHtml(<<Interpolate(formData["firstName"]), Interpolate(formData["lastName"])>>,
                  formData["email"],
                  IF Falsy(formData["additionalInfo"]) THEN "" ELSE formData["additionalInfo"],
                  urls)
    ELSE MailHtml(<<Interpolate(formData["name"])>>, formData["email"],
                  formData["message"], urls)

-----------------------------------------------------------------------------
(* Responses *)

\* res.status(400).json({success: false, message: `Missing required fields: ...`})
MissingResponse(missing) ==
    [status |-> 400, type |-> "json",
     body |-> [success |-> FALSE, message |-> <<"Missing required fields", missing>>]]

\* res.json({success: true, message: "Form submitted successfully!"})
SuccessResponse ==
    [status |-> 200, type |-> "json",
     body |-> [success |-> TRUE, message |-> <<"Form submitted successfully!">>]]

\* the outer catch: res.status(500).json({success: false, ...})
CatchResponse ==
    [status |-> 500, type |-> "json",
     body |-> [success |-> FALSE, message |-> <<"Internal server error">>]]

\* the error-handling middleware: res.status(500).send('Something broke!');
\* part_000 has none, and express's default handler answers 500 with a page
MiddlewareErrorResponse ==
    [status |-> 500, type |-> "text", body |-> [text |-> "Something broke!"]]

-----------------------------------------------------------------------------
(* Remote calls *)

FileCreateCall(e, file) ==
    [kind |-> "fileCreate", file |-> file,
     token |-> getShopifyHeaders(e).XShopifyAccessToken, result |-> "pending"]

MetafieldCall(e) ==
    [kind |-> "metafield", file |-> 0,
     token |-> getShopifyHeaders(e).XShopifyAccessToken, result |-> "pending"]

SendMailCall(e) ==
    [kind |-> "sendMail", file |-> 0, token |-> e.EMAIL_PASS, result |-> "pending"]

\* the last call of cs, returned with result r
Returned(cs, r) == [cs EXCEPT ![Len(cs)].result = r]

\* what a fileCreate call can come back with: a url; a 200 whose userErrors is
\* not empty; a 200 with no userErrors and no url; a rejected promise
FileCreateOutcomes == {"ok", "userErrors", "noUrl", "throws"}

\* what the metafield write can come back with
MetafieldOutcomes == {"ok", "userErrors", "throws"}

SendMailOutcomes == {"ok", "throws"}

-----------------------------------------------------------------------------
(* The server *)

Init ==
    /\ rev \in Revisions
    /\ env \in Environments
    /\ pc = "boot"
    /\ req = NoRequest
    /\ i = 0
    /\ uploadedImageURLs = <<>>
    /\ calls = <<>>
    /\ metafieldWrites = <<>>
    /\ mails = <<>>
    /\ responses = <<>>

\* app.listen(PORT, ...): nothing of process.env is looked at
Listen ==
    /\ pc = "boot"
    /\ pc' = "listening"
    /\ UNCHANGED <<rev, env, req, i, uploadedImageURLs, calls, metafieldWrites,
                   mails, responses>>

\* a POST /submit-form arrives and is handed to upload.array('images', 5)
Receive(r) ==
    /\ pc = "listening"
    /\ pc' = "multer"
    /\ req' = r
    /\ UNCHANGED <<rev, env, i, uploadedImageURLs, calls, metafieldWrites,
                   mails, responses>>

\* multer calls next(err): the handler never runs
MulterError ==
    /\ pc = "multer"
    /\ MulterRejects(req)
    /\ responses' = Append(responses, MiddlewareErrorResponse)
    /\ pc' = "done"
    /\ UNCHANGED <<rev, env, req, i, uploadedImageURLs, calls, metafieldWrites,
                   mails>>

\* the handler from position j of the loop up to its next await: the next
\* fileCreate, or after the loop the metafield write
RunLoopFrom(j, urls, cs) ==
    IF LoopHasNext(req, j)
    THEN /\ i' = j
         /\ uploadedImageURLs' = urls
         /\ calls' = Append(cs, FileCreateCall(env, req.files[j]))
         /\ pc' = "awaitFile"
         /\ UNCHANGED <<metafieldWrites, mails, responses>>
    ELSE /\ i' = j
         /\ uploadedImageURLs' = urls
         /\ metafieldWrites' = Append(metafieldWrites, MetafieldValue(rev, req.body, urls))
         /\ calls' = Append(cs, MetafieldCall(env))
         /\ pc' = "awaitWrite"
         /\ UNCHANGED <<mails, responses>>

\* the outer catch of the handler
Catch(cs) ==
    /\ calls' = cs
    /\ responses' = Append(responses, CatchResponse)
    /\ pc' = "done"
    /\ UNCHANGED <<i, uploadedImageURLs, metafieldWrites, mails>>

\* whether this file validates the required fields before anything else
Validates(r) == r = "server.js"

\* multer calls next(): the handler runs up to its first await
HandlerStart ==
    /\ pc = "multer"
    /\ ~MulterRejects(req)
    /\ IF Validates(rev) /\ Len(missingFields(req.body)) > 0
       THEN /\ responses' = Append(responses, MissingResponse(missingFields(req.body)))
            /\ pc' = "done"
            /\ UNCHANGED <<i, uploadedImageURLs, calls, metafieldWrites, mails>>
       ELSE RunLoopFrom(1, <<>>, calls)
    /\ UNCHANGED <<rev, env, req>>

\* whether a failed fileCreate is caught inside the loop (try/catch around the
\* post, and the userErrors check) or leaves the loop for the outer catch
LoopCatches(r) == r = "server.js"

\* the fileCreate post comes back
FileCreateReturn(outcome) ==
    /\ pc = "awaitFile"
    /\ LET cs == Returned(calls, outcome) IN
        CASE outcome = "ok" ->
                RunLoopFrom(i + 1, Append(uploadedImageURLs, Url(req.files[i])), cs)
          [] outcome = "noUrl" ->
                RunLoopFrom(i + 1, uploadedImageURLs, cs)
          [] outcome = "userErrors" ->
                \* server.js: continue; part_000: files[0]?.url is undefined
                RunLoopFrom(i + 1, uploadedImageURLs, cs)
          [] outcome = "throws" ->
                IF LoopCatches(rev)
                THEN RunLoopFrom(i + 1, uploadedImageURLs, cs)
                ELSE Catch(cs)
    /\ UNCHANGED <<rev, env, req>>

\* the metafield post comes back: the response body is logged, its userErrors
\* are not looked at, and the handler goes on to sendEmailNotification
MetafieldReturn(outcome) ==
    /\ pc = "awaitWrite"
    /\ LET cs == Returned(calls, outcome) IN
        IF outcome = "throws"
        THEN Catch(cs)
        ELSE /\ mails' = Append(mails, NotificationFor(rev, req.body, uploadedImageURLs))
             /\ calls' = Append(cs, SendMailCall(env))
             /\ pc' = "awaitMail"
             /\ UNCHANGED <<i, uploadedImageURLs, metafieldWrites, responses>>
    /\ UNCHANGED <<rev, env, req>>

\* transporter.sendMail comes back
SendMailReturn(outcome) ==
    /\ pc = "awaitMail"
    /\ LET cs == Returned(calls, outcome) IN
        IF outcome = "throws"
        THEN Catch(cs)
        ELSE /\ calls' = cs
             /\ responses' = Append(responses, SuccessResponse)
             /\ pc' = "done"
             /\ UNCHANGED <<i, uploadedImageURLs, metafieldWrites, mails>>
    /\ UNCHANGED <<rev, env, req>>

\* the response is out; nothing of the request is kept
Finish ==
    /\ pc = "done"
    /\ pc' = "listening"
    /\ req' = NoRequest
    /\ i' = 0
    /\ uploadedImageURLs' = <<>>
    /\ calls' = <<>>
    /\ metafieldWrites' = <<>>
    /\ mails' = <<>>
    /\ responses' = <<>>
    /\ UNCHANGED <<rev, env>>

Next ==
    \/ Listen
    \/ \E r \in Requests : Receive(r)
    \/ MulterError
    \/ HandlerStart
    \/ \E o \in FileCreateOutcomes : FileCreateReturn(o)
    \/ \E o \in MetafieldOutcomes : MetafieldReturn(o)
    \/ \E o \in SendMailOutcomes : SendMailReturn(o)
    \/ Finish

Spec == Init /\ [][Next]_vars

-----------------------------------------------------------------------------
(* What the properties below read off a state *)

Handled == pc = "done"

HasRequest == req.ctype # "none"

FieldMissing == \E f \in RequiredSet : req.body[f] = Undefined \/ req.body[f] = ""

FileCalls == SelectSeq(calls, LAMBDA c : c.kind = "fileCreate")

WriteCalls == SelectSeq(calls, LAMBDA c : c.kind = "metafield")

MailCalls == SelectSeq(calls, LAMBDA c : c.kind = "sendMail")

FailedFileCalls ==
    SelectSeq(calls, LAMBDA c : c.kind = "fileCreate" /\ c.result \in {"userErrors", "throws"})

\* the urls of the fileCreate calls that came back with one, in call order
SucceededUrls ==
    LET ok == SelectSeq(calls, LAMBDA c : c.kind = "fileCreate" /\ c.result = "ok")
    IN  [k \in 1..Len(ok) |-> Url(ok[k].file)]

AnsweredWith(status, success) ==
    /\ Len(responses) = 1
    /\ responses[1].status = status
    /\ responses[1].type = "json"
    /\ responses[1].body.success = success

\* JSON.parse of the members Stringify wrote
ParseObject(members) ==
    [k \in {m[1] : m \in members} |-> (CHOOSE m \in members : m[1] = k)[2]]

\* JSON.parse of a written value
Parse(value) ==
    [k \in DOMAIN value |->
        IF k \in {"customerInfo", "itemDetails", "fields"}
        THEN ParseObject(value[k])
        ELSE value[k]]

\* the form members of a parsed value, whichever object they sit in
RecordedFields(value) ==
    IF "customerInfo" \in DOMAIN value
    THEN value.customerInfo @@ value.itemDetails
    ELSE value.fields

\* the images of the request: multipart file parts, or slots of a JSON body
ImageCount == Len(req.files) + Cardinality(req.images)

-----------------------------------------------------------------------------
(* The claims *)

\* C1: a request with a required field absent or empty is answered 400 with
\* success:false, and no remote call is issued for it.
C1_MissingFieldIs400NoCalls ==
    (HasRequest /\ FieldMissing) =>
        /\ calls = <<>>
        /\ Handled => AnsweredWith(400, FALSE)

\* C2: a metafield write that comes back 200 with userErrors ends the request
\* with a 500 and success:false, never with a 200.
C2_WriteUserErrorsIs500 ==
    (Handled /\ Len(WriteCalls) = 1 /\ WriteCalls[1].result = "userErrors") =>
        AnsweredWith(500, FALSE)

\* C3: when some fileCreate calls fail, every submitted image still gets its
\* call, the written image list is exactly the urls of the successful ones,
\* and the request fails only if the write or the mail fails.
C3_FailedImagesAbsorbed ==
    (Handled /\ Len(FailedFileCalls) > 0) =>
        /\ Len(FileCalls) = Len(req.files)
        /\ Len(metafieldWrites) = 1
        /\ Parse(metafieldWrites[1]).images = SucceededUrls
        /\ (/\ WriteCalls[1].result = "ok"
            /\ Len(MailCalls) = 1
            /\ MailCalls[1].result = "ok") => AnsweredWith(200, TRUE)

\* C4: a failed metafield write (transport failure or userErrors) or a failed
\* mail send ends the request with one 500 and success:false.
C4_WriteOrMailFailureIs500 ==
    (Handled /\ (\/ \E k \in 1..Len(calls) :
                        /\ calls[k].kind = "metafield"
                        /\ calls[k].result \in {"userErrors", "throws"}
                 \/ \E k \in 1..Len(calls) :
                        /\ calls[k].kind = "sendMail"
                        /\ calls[k].result = "throws")) =>
        AnsweredWith(500, FALSE)

\* C5: a valid submission without images whose write and mail succeed issues
\* no fileCreate call, writes an empty image list, sends a mail without the
\* images block and is answered 200 with success:true.
C5_ZeroImagesSucceeds ==
    (/\ Handled
     /\ ~FieldMissing
     /\ ImageCount = 0
     /\ Len(WriteCalls) = 1 /\ WriteCalls[1].result = "ok"
     /\ Len(MailCalls) = 1 /\ MailCalls[1].result = "ok") =>
        /\ FileCalls = <<>>
        /\ Len(metafieldWrites) = 1
        /\ Parse(metafieldWrites[1]).images = <<>>
        /\ Len(mails) = 1
        /\ mails[1].images = <<>>
        /\ AnsweredWith(200, TRUE)

C5_Witness ==
    /\ Handled
    /\ ~FieldMissing
    /\ ImageCount = 0
    /\ Len(WriteCalls) = 1 /\ WriteCalls[1].result = "ok"
    /\ Len(MailCalls) = 1 /\ MailCalls[1].result = "ok"
    /\ AnsweredWith(200, TRUE)

\* the fields of a valuation submission: contact fields, item fields of every
\* category, year of purchase
ValuationFields == FormFields \ {"name", "message", "checkbox"}

\* C6: the written value, parsed back, holds every submitted field (contact
\* fields, item fields of every category, yearOfPurchase) under its own name
\* with its own value, and the uploaded urls in upload order.
C6_RoundTrip ==
    Len(metafieldWrites) = 1 =>
        LET value == Parse(metafieldWrites[1]) IN
        /\ \A f \in ValuationFields :
                req.body[f] # Undefined =>
                    /\ f \in DOMAIN RecordedFields(value)
                    /\ RecordedFields(value)[f] = req.body[f]
        /\ value.images = uploadedImageURLs

\* C7: every image of an accepted submission, a file part or a base64 string
\* of a JSON body, gets exactly one fileCreate call.
C7_OneCallPerImage ==
    (Handled /\ Len(responses) = 1 /\ responses[1].status = 200) =>
        /\ Len(FileCalls) = ImageCount
        /\ \A k \in 1..Len(req.files) :
                Cardinality({n \in 1..Len(calls) :
                    calls[n].kind = "fileCreate" /\ calls[n].file = req.files[k]}) = 1

\* C8: whether the server stops at startup or at the first use of a missing
\* credential, no remote call is issued carrying an undefined token.
C8_NoCallWithoutCredential ==
    \A k \in 1..Len(calls) : calls[k].token # Undefined

\* C9: the remote calls of a request are strictly ordered: one call in flight
\* at a time, fileCreate calls in file order, the metafield write only after
\* every file's call is back, the mail only after the write came back without
\* throwing, the 200 only after the mail came back.
C9_CallsInOrder ==
    /\ \A k \in 1..Len(calls) : calls[k].result = "pending" => k = Len(calls)
    /\ \A k \in 1..Len(FileCalls) : FileCalls[k].file = req.files[k]
    /\ \A k \in 1..Len(calls) :
            calls[k].kind = "metafield" =>
                /\ k = Len(req.files) + 1
                /\ \A n \in 1..(k - 1) :
                        calls[n].kind = "fileCreate" /\ calls[n].result # "pending"
    /\ \A k \in 1..Len(calls) :
            calls[k].kind = "sendMail" =>
                /\ k > 1
                /\ calls[k - 1].kind = "metafield"
                /\ calls[k - 1].result \in {"ok", "userErrors"}
    /\ \A n \in 1..Len(responses) :
            responses[n].status = 200 =>
                /\ Len(calls) > 0
                /\ calls[Len(calls)].kind = "sendMail"
                /\ calls[Len(calls)].result = "ok"

C9_Witness ==
    /\ Handled
    /\ Len(req.files) >= 3
    /\ Len(FailedFileCalls) > 0
    /\ Len(SucceededUrls) > 0
    /\ Len(MailCalls) = 1
    /\ AnsweredWith(200, TRUE)

\* C10: every request is answered exactly once, with a JSON body whose success
\* flag is true exactly when the status is 200.
C10_OneJsonAnswer ==
    Handled =>
        /\ Len(responses) = 1
        /\ responses[1].type = "json"
        /\ "success" \in DOMAIN responses[1].body
        /\ responses[1].body.success = (responses[1].status = 200)

====
